---- MODULE Spec2Model ----
(***************************************************************************)
(* Team formation of Index-Bot (src/bot.py): form_teams, initialize_teams, *)
(* meets_role_requirements, overall_team_avg_variance and the simulated    *)
(* annealing generator optimize_teams_sa_anim.                             *)
(*                                                                         *)
(* Encoding.  A Participant object is denoted by its discord_id, its       *)
(* attributes are read through P(id).  Python lists are sequences, indexed *)
(* from 1 instead of 0.  Floating point numbers (objective, temperature)   *)
(* are exact rationals [num, den]; rounding of the IEEE arithmetic is not  *)
(* modelled.  copy.deepcopy is value copy.  The random module is a         *)
(* nondeterministic choice of every drawn value.                           *)
(***************************************************************************)
EXTENDS Integers, Sequences, FiniteSets, TLC

VARIABLES pc, caller, pool, participants, team_size, role_requirements,
          leader_required, max_iter, initial_temp, cooling_rate,
          teams, current_teams, current_obj, best_state, best_obj,
          T, iteration, emitted, result, draw,
          fn_pc, fn_args, fn_ret,
          profiles_json, comp_json, session, acked, joined

vars == <<pc, caller, pool, participants, team_size, role_requirements,
          leader_required, max_iter, initial_temp, cooling_rate,
          teams, current_teams, current_obj, best_state, best_obj,
          T, iteration, emitted, result, draw,
          fn_pc, fn_args, fn_ret,
          profiles_json, comp_json, session, acked, joined>>

(* the variables of a call of one pure function *)
fnvars == <<fn_pc, fn_args, fn_ret>>

(* the variables of the command sessions of the bot and its JSON files *)
botvars == <<profiles_json, comp_json, session, acked, joined>>

(* the variables of one formation run *)
runvars == <<pc, caller, pool, participants, team_size, role_requirements,
             leader_required, max_iter, initial_temp, cooling_rate,
             teams, current_teams, current_obj, best_state, best_obj,
             T, iteration, emitted, result, draw>>

elsewhere == <<fnvars, botvars>>

inputs == <<pool, team_size, role_requirements, leader_required,
            max_iter, initial_temp, cooling_rate>>

search == <<current_teams, current_obj, best_state, best_obj, T, iteration, emitted>>

----------------------------------------------------------------------------
(* Bounds of the enumerated inputs *)

MaxPool == 3

MaxTeamSize == 3

MaxIter == 1

----------------------------------------------------------------------------
(* Participants *)

Roster ==
  << [discord_id |-> 1, role |-> "AI Engineer", wants_to_lead |-> TRUE,  composite_score |-> 0],
     [discord_id |-> 2, role |-> "AI Engineer", wants_to_lead |-> FALSE, composite_score |-> 3],
     [discord_id |-> 3, role |-> "Design",      wants_to_lead |-> FALSE, composite_score |-> 1],
     [discord_id |-> 4, role |-> "Design",      wants_to_lead |-> TRUE,  composite_score |-> 4],
     [discord_id |-> 5, role |-> "AI Engineer", wants_to_lead |-> FALSE, composite_score |-> 2],
     [discord_id |-> 6, role |-> "Design",      wants_to_lead |-> FALSE, composite_score |-> 2] >>

P(id) == Roster[id]

Pools == { [k \in 1..n |-> k] : n \in 1..MaxPool }

RoleRequirements ==
  { [r \in {} |-> 0],
    [r \in {"AI Engineer", "Design"} |-> 1],
    [r \in {"AI Engineer"} |-> 1],
    [r \in {"AI Engineer", "Design"} |-> IF r = "AI Engineer" THEN 2 ELSE 1] }

Rat(n, d) == [num |-> n, den |-> d]

Temperatures == { <<Rat(1, 1), Rat(1, 2)>>, <<Rat(1, 1000), Rat(1, 10)>> }

None == 0

----------------------------------------------------------------------------
(* Rational arithmetic on [num, den] with den > 0 *)

Less(a, b) == a.num * b.den < b.num * a.den

Eq(a, b) == a.num * b.den = b.num * a.den

Mul(a, b) == Rat(a.num * b.num, a.den * b.den)

RECURSIVE Pow(_, _)
Pow(a, k) == IF k = 0 THEN Rat(1, 1) ELSE Mul(a, Pow(a, k - 1))

----------------------------------------------------------------------------
(* Sequences *)

Range(s) == { s[k] : k \in DOMAIN s }

Permutations_(s) ==
  { q \in [DOMAIN s -> Range(s)] : \A a, b \in DOMAIN s : a # b => q[a] # q[b] }

RECURSIVE Flatten(_)
Flatten(ts) == IF ts = <<>> THEN <<>> ELSE Head(ts) \o Flatten(Tail(ts))

RECURSIVE SumValues(_)
SumValues(f) ==
  IF DOMAIN f = {} THEN 0
  ELSE LET k == CHOOSE x \in DOMAIN f : TRUE
       IN f[k] + SumValues([x \in DOMAIN f \ {k} |-> f[x]])

----------------------------------------------------------------------------
(* initialize_teams: contiguous chunks of team_size of the shuffled list *)

Chunk(ps, size, k) ==
  SubSeq(ps, (k - 1) * size + 1, IF k * size < Len(ps) THEN k * size ELSE Len(ps))

initialize_teams_floor(shuffled, size) ==
  [k \in 1..(Len(shuffled) \div size) |-> Chunk(shuffled, size, k)]

initialize_teams(shuffled, size) ==
  [k \in 1..((Len(shuffled) + size - 1) \div size) |-> Chunk(shuffled, size, k)]

----------------------------------------------------------------------------
(* overall_team_avg_variance: variance of the mean composite score of the   *)
(* non-empty teams, as the exact rational                                   *)
(*   (n * Sum(M^2) - Sum(M)^2) / (n * D)^2,                                 *)
(* n the number of non-empty teams, D the product of their sizes and        *)
(* M = mean * D.                                                            *)

RECURSIVE TeamScore(_)
TeamScore(team) ==
  IF team = <<>> THEN 0 ELSE P(Head(team)).composite_score + TeamScore(Tail(team))

RECURSIVE SizeProduct(_)
SizeProduct(ts) ==
  IF ts = <<>> THEN 1
  ELSE (IF Head(ts) = <<>> THEN 1 ELSE Len(Head(ts))) * SizeProduct(Tail(ts))

RECURSIVE SumMeans(_, _, _)
SumMeans(ts, d, power) ==
  IF ts = <<>> THEN 0
  ELSE LET team == Head(ts)
           m == IF team = <<>> THEN 0 ELSE TeamScore(team) * (d \div Len(team))
       IN (IF team = <<>> THEN 0 ELSE IF power = 2 THEN m * m ELSE m)
          + SumMeans(Tail(ts), d, power)

overall_team_avg_variance(ts) ==
  LET n == Cardinality({k \in DOMAIN ts : ts[k] # <<>>})
      d == SizeProduct(ts)
      s1 == SumMeans(ts, d, 1)
      s2 == SumMeans(ts, d, 2)
  IN Rat(n * s2 - s1 * s1, (n * d) * (n * d))

----------------------------------------------------------------------------
(* meets_role_requirements *)

RoleCount(team, role) == Cardinality({k \in DOMAIN team : P(team[k]).role = role})

meets_role_requirements_le(team, reqs, leader, full_team_size) ==
  IF Len(team) <= full_team_size THEN TRUE
  ELSE /\ \A role \in DOMAIN reqs : RoleCount(team, role) >= reqs[role]
       /\ leader => \E k \in DOMAIN team : P(team[k]).wants_to_lead

meets_role_requirements(team, reqs, leader, full_team_size) ==
  IF Len(team) < full_team_size THEN TRUE
  ELSE /\ \A role \in DOMAIN reqs : RoleCount(team, role) >= reqs[role]
       /\ leader => \E k \in DOMAIN team : P(team[k]).wants_to_lead

----------------------------------------------------------------------------
(* optimize_teams_sa_anim: helpers of one loop iteration *)

FloorDen == 10000

LoopCond(temp, it, cap) == temp.num * FloorDen > temp.den /\ it < cap

NewTeam1_append(team1, team2, idx1, idx2) == Append(team1, team2[idx2])

NewTeam1(team1, team2, idx1, idx2) == [team1 EXCEPT ![idx1] = team2[idx2]]

NewTeam2_sequential(team1, team2, idx1, idx2) ==
  [team2 EXCEPT ![idx2] = NewTeam1(team1, team2, idx1, idx2)[idx1]]

NewTeam2(team1, team2, idx1, idx2) == [team2 EXCEPT ![idx2] = team1[idx1]]

NewTeams(ts, i, j, idx1, idx2) ==
  [ts EXCEPT ![i] = NewTeam1(ts[i], ts[j], idx1, idx2),
             ![j] = NewTeam2(ts[i], ts[j], idx1, idx2)]

Legal_first(ts, i, j, idx1, idx2, reqs, leader, full_team_size) ==
  meets_role_requirements(NewTeam1(ts[i], ts[j], idx1, idx2), reqs, leader, full_team_size)

Legal(ts, i, j, idx1, idx2, reqs, leader, full_team_size) ==
  /\ meets_role_requirements(NewTeam1(ts[i], ts[j], idx1, idx2), reqs, leader, full_team_size)
  /\ meets_role_requirements(NewTeam2(ts[i], ts[j], idx1, idx2), reqs, leader, full_team_size)

Accepted_always(new_obj, cur_obj, draw_below) == TRUE

Accepted_drawn(new_obj, cur_obj, draw_below) == Less(new_obj, cur_obj) \/ draw_below

Accepted(new_obj, cur_obj, draw_below) ==
  \/ Less(new_obj, cur_obj)
  \/ IF Eq(new_obj, cur_obj) THEN TRUE ELSE draw_below

ImprovesBest_always(cur_obj, best) == TRUE

ImprovesBest(cur_obj, best) == Less(cur_obj, best)

Cool(temp, rate) == Mul(temp, rate)

Snapshot_crossed(ts, obj, it, i, j, idx1, idx2, done) ==
  [teams |-> ts, obj |-> obj, iteration |-> it,
   i |-> i, j |-> j, idx1 |-> idx2, idx2 |-> idx1, done |-> done]

Snapshot(ts, obj, it, i, j, idx1, idx2, done) ==
  [teams |-> ts, obj |-> obj, iteration |-> it,
   i |-> i, j |-> j, idx1 |-> idx1, idx2 |-> idx2, done |-> done]

FinalSnapshot_current(cur_teams, cur_obj, best_teams, best, it) ==
  Snapshot(cur_teams, cur_obj, it, None, None, None, None, TRUE)

FinalSnapshot(cur_teams, cur_obj, best_teams, best, it) ==
  Snapshot(best_teams, best, it, None, None, None, None, TRUE)

----------------------------------------------------------------------------
(* State after construction: the arguments of one formation run are fixed,  *)
(* nothing has been called yet.                                             *)

NoObj == Rat(0, 1)

(* the values drawn by one loop iteration: lines 131 and 135, and whether   *)
(* random.random() of line 148 fell below math.exp(-delta / T); the latter  *)
(* is drawn only when delta < 0 is false, and with delta = 0 it is below    *)
(* math.exp(0) = 1.0 whatever it is                                         *)
Draw(i, j, idx1, idx2, u) == [i |-> i, j |-> j, idx1 |-> idx1, idx2 |-> idx2, u |-> u]

Uniform(new_obj, cur_obj, draw_below) ==
  IF Less(new_obj, cur_obj) THEN "none"
  ELSE IF Eq(new_obj, cur_obj) \/ draw_below THEN "below" ELSE "not_below"

NoDraw == Draw(None, None, None, None, "none")

(* the state of the parts that take no part in a formation run *)
FnUnused == fn_pc = "unused" /\ fn_args = <<>> /\ fn_ret = <<>>

BotUnused ==
  /\ profiles_json = <<>>
  /\ comp_json = <<>>
  /\ session = <<>>
  /\ acked = <<>>
  /\ joined = {}

Init ==
  /\ pc = "idle"
  /\ caller = "none"
  /\ pool \in Pools
  /\ participants = pool
  /\ team_size \in 1..MaxTeamSize
  /\ role_requirements \in RoleRequirements
  /\ leader_required \in BOOLEAN
  /\ max_iter \in 0..MaxIter
  /\ \E tc \in Temperatures : initial_temp = tc[1] /\ cooling_rate = tc[2]
  /\ teams = <<>>
  /\ current_teams = <<>>
  /\ current_obj = NoObj
  /\ best_state = <<>>
  /\ best_obj = NoObj
  /\ T = initial_temp
  /\ iteration = 0
  /\ emitted = <<>>
  /\ result = <<>>
  /\ draw = NoDraw
  /\ FnUnused
  /\ BotUnused

----------------------------------------------------------------------------
(* make_teams, lines 475-496: the guards before the call of form_teams.     *)
(* caller is the function in control: make_teams while it has not called    *)
(* form_teams (line 493), form_teams from then on.                          *)

make_teams ==
  /\ pc = "idle"
  /\ pc' = IF Len(participants) < team_size THEN "not_enough"
           ELSE IF team_size < SumValues(role_requirements) THEN "too_small"
           ELSE "form_teams"
  /\ caller' = IF pc' = "form_teams" THEN "form_teams" ELSE "make_teams"
  /\ UNCHANGED <<elsewhere, draw, inputs, participants, teams, search, result>>

(* form_teams, line 161: the test of the configuration error *)
ConfigurationError_le(size, reqs) == size <= SumValues(reqs)

ConfigurationError(size, reqs) == size < SumValues(reqs)

(* a direct call of form_teams *)
call_form_teams ==
  /\ pc = "idle"
  /\ caller' = "form_teams"
  /\ pc' = "form_teams"
  /\ UNCHANGED <<elsewhere, draw, inputs, participants, teams, search, result>>

(* form_teams, lines 161-162: the configuration error *)
form_teams_error ==
  /\ pc = "form_teams"
  /\ ConfigurationError(team_size, role_requirements)
  /\ pc' = "config_error"
  /\ UNCHANGED <<elsewhere, draw, caller, inputs, participants, teams, search, result>>

(* form_teams, line 163: initialize_teams shuffles the list in place and    *)
(* slices it; line 165 creates the generator                                *)
form_teams_init ==
  /\ pc = "form_teams"
  /\ ~ConfigurationError(team_size, role_requirements)
  /\ \E shuffled \in Permutations_(participants) :
       /\ participants' = shuffled
       /\ teams' = initialize_teams(shuffled, team_size)
  /\ pc' = "optimize"
  /\ UNCHANGED <<elsewhere, draw, caller, inputs, search, result>>

(* a direct call of optimize_teams_sa_anim with an assignment that holds an *)
(* empty team, the case of lines 133-134                                    *)
InsertEmpty(ts, pos) ==
  [k \in 1..(Len(ts) + 1) |-> IF k < pos THEN ts[k] ELSE IF k = pos THEN <<>> ELSE ts[k - 1]]

call_optimize ==
  /\ pc = "idle"
  /\ caller' = "optimize_teams_sa_anim"
  /\ \E pos \in 1..(Len(initialize_teams(participants, team_size)) + 1) :
       teams' = InsertEmpty(initialize_teams(participants, team_size), pos)
  /\ pc' = "optimize"
  /\ UNCHANGED <<elsewhere, draw, inputs, participants, search, result>>

----------------------------------------------------------------------------
(* optimize_teams_sa_anim *)

(* lines 120-127: the initial state and the snapshot of iteration 0 *)
optimize_start ==
  /\ pc = "optimize"
  /\ current_teams' = teams
  /\ current_obj' = overall_team_avg_variance(teams)
  /\ best_state' = teams
  /\ best_obj' = overall_team_avg_variance(teams)
  /\ T' = initial_temp
  /\ iteration' = 0
  /\ emitted' = <<Snapshot(teams, overall_team_avg_variance(teams), 0, None, None, None, None, FALSE)>>
  /\ pc' = "loop"
  /\ UNCHANGED <<elsewhere, draw, caller, inputs, participants, teams, result>>

(* lines 129-131: random.sample(range(n), 2) raises ValueError when n < 2 *)
step_raise ==
  /\ pc = "loop"
  /\ LoopCond(T, iteration, max_iter)
  /\ Len(current_teams) < 2
  /\ iteration' = iteration + 1
  /\ pc' = "raised"
  /\ UNCHANGED <<elsewhere, draw, caller, inputs, participants, teams, current_teams, current_obj,
                 best_state, best_obj, T, emitted, result>>

(* lines 130-134: a selected team is empty *)
step_empty ==
  /\ pc = "loop"
  /\ LoopCond(T, iteration, max_iter)
  /\ \E i, j \in DOMAIN current_teams :
       /\ i # j
       /\ current_teams[i] = <<>> \/ current_teams[j] = <<>>
       /\ draw' = Draw(i, j, None, None, "none")
  /\ iteration' = iteration + 1
  /\ UNCHANGED <<elsewhere, pc, caller, inputs, participants, teams, current_teams, current_obj,
                 best_state, best_obj, T, emitted, result>>

(* lines 130-143: the candidate fails the validator *)
step_illegal ==
  /\ pc = "loop"
  /\ LoopCond(T, iteration, max_iter)
  /\ \E i, j \in DOMAIN current_teams :
       /\ i # j
       /\ current_teams[i] # <<>> /\ current_teams[j] # <<>>
       /\ \E idx1 \in DOMAIN current_teams[i], idx2 \in DOMAIN current_teams[j] :
            /\ ~Legal(current_teams, i, j, idx1, idx2, role_requirements, leader_required, team_size)
            /\ draw' = Draw(i, j, idx1, idx2, "none")
  /\ iteration' = iteration + 1
  /\ T' = Cool(T, cooling_rate)
  /\ emitted' = Append(emitted,
       Snapshot(current_teams, current_obj, iteration + 1, None, None, None, None, FALSE))
  /\ UNCHANGED <<elsewhere, pc, caller, inputs, participants, teams, current_teams, current_obj,
                 best_state, best_obj, result>>

(* lines 130-154, 157: the candidate is legal and accepted *)
step_accept ==
  /\ pc = "loop"
  /\ LoopCond(T, iteration, max_iter)
  /\ \E i, j \in DOMAIN current_teams :
       /\ i # j
       /\ current_teams[i] # <<>> /\ current_teams[j] # <<>>
       /\ \E idx1 \in DOMAIN current_teams[i], idx2 \in DOMAIN current_teams[j], draw_below \in BOOLEAN :
            LET new_teams == NewTeams(current_teams, i, j, idx1, idx2)
                new_obj == overall_team_avg_variance(new_teams)
            IN /\ Legal(current_teams, i, j, idx1, idx2, role_requirements, leader_required, team_size)
               /\ Accepted(new_obj, current_obj, draw_below)
               /\ draw' = Draw(i, j, idx1, idx2, Uniform(new_obj, current_obj, draw_below))
               /\ current_teams' = new_teams
               /\ current_obj' = new_obj
               /\ best_obj' = IF ImprovesBest(new_obj, best_obj) THEN new_obj ELSE best_obj
               /\ best_state' = IF ImprovesBest(new_obj, best_obj) THEN new_teams ELSE best_state
               /\ emitted' = Append(emitted,
                    Snapshot(new_teams, new_obj, iteration + 1, i, j, idx1, idx2, FALSE))
  /\ iteration' = iteration + 1
  /\ T' = Cool(T, cooling_rate)
  /\ UNCHANGED <<elsewhere, pc, caller, inputs, participants, teams, result>>

(* lines 130-148, 155-157: the candidate is legal and rejected *)
step_reject ==
  /\ pc = "loop"
  /\ LoopCond(T, iteration, max_iter)
  /\ \E i, j \in DOMAIN current_teams :
       /\ i # j
       /\ current_teams[i] # <<>> /\ current_teams[j] # <<>>
       /\ \E idx1 \in DOMAIN current_teams[i], idx2 \in DOMAIN current_teams[j], draw_below \in BOOLEAN :
            LET new_teams == NewTeams(current_teams, i, j, idx1, idx2)
                new_obj == overall_team_avg_variance(new_teams)
            IN /\ Legal(current_teams, i, j, idx1, idx2, role_requirements, leader_required, team_size)
               /\ ~Accepted(new_obj, current_obj, draw_below)
               /\ draw' = Draw(i, j, idx1, idx2, Uniform(new_obj, current_obj, draw_below))
  /\ iteration' = iteration + 1
  /\ T' = Cool(T, cooling_rate)
  /\ emitted' = Append(emitted,
       Snapshot(current_teams, current_obj, iteration + 1, None, None, None, None, FALSE))
  /\ UNCHANGED <<elsewhere, pc, caller, inputs, participants, teams, current_teams, current_obj,
                 best_state, best_obj, result>>

(* line 158: the loop has ended, the completion snapshot; lines 165-167:    *)
(* form_teams returns the assignment of the last snapshot                   *)
finish ==
  /\ pc = "loop"
  /\ ~LoopCond(T, iteration, max_iter)
  /\ emitted' = Append(emitted,
       FinalSnapshot(current_teams, current_obj, best_state, best_obj, iteration))
  /\ result' = IF caller = "optimize_teams_sa_anim" THEN result
               ELSE FinalSnapshot(current_teams, current_obj, best_state, best_obj, iteration).teams
  /\ pc' = "finished"
  /\ UNCHANGED <<elsewhere, draw, caller, inputs, participants, teams, current_teams, current_obj,
                 best_state, best_obj, T, iteration>>

Next ==
  \/ make_teams
  \/ call_form_teams
  \/ form_teams_error
  \/ form_teams_init
  \/ call_optimize
  \/ optimize_start
  \/ step_raise
  \/ step_empty
  \/ step_illegal
  \/ step_accept
  \/ step_reject
  \/ finish

Spec == Init /\ [][Next]_vars

----------------------------------------------------------------------------
(* Properties *)

FormationRun == caller \in {"make_teams", "form_teams"}

Started == pc \in {"loop", "raised", "finished"}

IsPartition(ts) ==
  /\ Len(Flatten(ts)) = Len(pool)
  /\ Range(Flatten(ts)) = Range(pool)

Last(s) == s[Len(s)]

(* C1: in every emitted snapshot, and in the value form_teams returns, the  *)
(* discord_ids found across the teams are exactly those of the input pool,  *)
(* each exactly once.                                                       *)
C1_PartitionInvariant ==
  /\ \A k \in DOMAIN emitted : IsPartition(emitted[k].teams)
  /\ (pc = "finished" /\ FormationRun) => IsPartition(result)

C1_Witness ==
  /\ pc = "finished"
  /\ caller = "form_teams"
  /\ \E k \in DOMAIN emitted : emitted[k].i # None
  /\ result # teams

(* C2: in every snapshot of a formation run, every team of the configured   *)
(* size has the required minimum of every named role and, when leadership   *)
(* is required, a member who wants to lead.                                 *)
C2_Legality ==
  FormationRun =>
    \A k \in DOMAIN emitted : \A t \in DOMAIN emitted[k].teams :
      LET team == emitted[k].teams[t]
      IN Len(team) = team_size =>
           /\ \A role \in DOMAIN role_requirements :
                RoleCount(team, role) >= role_requirements[role]
           /\ leader_required => \E m \in DOMAIN team : P(team[m]).wants_to_lead

(* C3: the final snapshot carries the best-ever state: its objective is the *)
(* minimum of the objectives of the earlier snapshots, its assignment is    *)
(* that of an earlier snapshot with that objective, and form_teams returns  *)
(* that assignment.                                                         *)
C3_FinalIsBestEver ==
  pc = "finished" =>
    LET n == Len(emitted)
        fin == emitted[n]
    IN /\ n >= 2
       /\ fin.done
       /\ \A k \in 1..(n - 1) : ~Less(emitted[k].obj, fin.obj)
       /\ \E k \in 1..(n - 1) : Eq(emitted[k].obj, fin.obj) /\ emitted[k].teams = fin.teams
       /\ FormationRun => result = fin.teams

C3_Witness ==
  /\ pc = "finished"
  /\ caller = "form_teams"
  /\ Len(emitted) >= 3
  /\ Less(Last(emitted).obj, emitted[Len(emitted) - 1].obj)
  /\ result # emitted[Len(emitted) - 1].teams

(* C4: form_teams fails exactly when team_size is smaller than the sum of   *)
(* the required minimums, and then the list is not shuffled, no teams are   *)
(* built and no step or snapshot is produced; with team_size equal to the   *)
(* sum it proceeds.                                                         *)
C4_ConfigurationError ==
  /\ pc = "config_error" =>
       /\ participants = pool
       /\ teams = <<>>
       /\ emitted = <<>>
       /\ current_teams = <<>>
       /\ iteration = 0
       /\ result = <<>>
  /\ (caller = "form_teams" /\ pc \notin {"idle", "form_teams"}) =>
       (pc = "config_error" <=> team_size < SumValues(role_requirements))

C4_Witness ==
  /\ pc = "config_error"
  /\ caller = "form_teams"
  /\ team_size + 1 = SumValues(role_requirements)

(* C5: a run over an assignment with exactly one team ends at iteration 0   *)
(* without raising, with a completion snapshot that carries that team.      *)
C5_SingleTeamRun ==
  (Started /\ Len(teams) = 1) =>
    /\ pc # "raised"
    /\ iteration = 0
    /\ pc = "finished" => (Last(emitted).done /\ Last(emitted).teams = teams)

(* C6: every run ends after at most max_iter steps with exactly one         *)
(* snapshot flagged complete, the last of the sequence.                     *)
C6_TerminatesWithCompletion ==
  pc \in {"finished", "raised"} =>
    /\ iteration <= max_iter
    /\ Cardinality({k \in DOMAIN emitted : emitted[k].done}) = 1
    /\ Last(emitted).done

(* C7: the best-ever objective never increases, and it (with the best-ever  *)
(* assignment) is replaced only by a current objective strictly smaller     *)
(* than it.                                                                 *)
C7_BestNeverIncreases ==
  [][pc = "loop" =>
       /\ ~Less(best_obj, best_obj')
       /\ (best_obj' # best_obj \/ best_state' # best_state) =>
            /\ Less(current_obj', best_obj)
            /\ best_obj' = current_obj'
            /\ best_state' = current_teams']_vars

C7_Witness ==
  /\ pc = "loop"
  /\ Less(best_obj, emitted[1].obj)
  /\ best_state # teams

(* C8: after k counted iterations the temperature has been cooled exactly   *)
(* k times, whichever branch each iteration took.                           *)
C8_CooledEveryIteration ==
  pc \in {"loop", "finished"} =>
    Eq(T, Mul(initial_temp, Pow(cooling_rate, iteration)))

(* C9: after the initial snapshot with iteration 0, each step k produces    *)
(* exactly one non-final snapshot carrying iteration number k.              *)
C9_OneSnapshotPerStep ==
  pc = "loop" =>
    /\ Len(emitted) = iteration + 1
    /\ \A k \in DOMAIN emitted : emitted[k].iteration = k - 1 /\ ~emitted[k].done

----------------------------------------------------------------------------
(* Properties of one step of the search *)

(* the current assignment with the two drawn members exchanged *)
Exchanged(ts, d) ==
  [t \in DOMAIN ts |->
     [m \in DOMAIN ts[t] |->
        IF t = d.i /\ m = d.idx1 THEN ts[d.j][d.idx2]
        ELSE IF t = d.j /\ m = d.idx2 THEN ts[d.i][d.idx1]
        ELSE ts[t][m]]]

Validated(ts, d) ==
  /\ meets_role_requirements(Exchanged(ts, d)[d.i], role_requirements, leader_required, team_size)
  /\ meets_role_requirements(Exchanged(ts, d)[d.j], role_requirements, leader_required, team_size)

(* a loop iteration that has drawn two members: d is the draw of the step *)
SwapStep(d) ==
  /\ pc = "loop" /\ pc' = "loop"
  /\ iteration' # iteration
  /\ d.idx1 # None

FullTeamViolates(team) ==
  /\ Len(team) = team_size
  /\ \/ \E role \in DOMAIN role_requirements : RoleCount(team, role) < role_requirements[role]
     \/ leader_required /\ \A m \in DOMAIN team : ~P(team[m]).wants_to_lead

(* C14: a step whose candidate fails the validator, or is legal but         *)
(* rejected by the Metropolis test, leaves the current and the best-ever    *)
(* assignment and objective unchanged, counts the iteration and cools the   *)
(* temperature once.                                                        *)
C14_RejectedStepUnchanged ==
  [][(SwapStep(draw') /\ (~Validated(current_teams, draw') \/ draw'.u = "not_below")) =>
       /\ current_teams' = current_teams
       /\ current_obj' = current_obj
       /\ best_state' = best_state
       /\ best_obj' = best_obj
       /\ iteration' = iteration + 1
       /\ Eq(T', Mul(T, cooling_rate))
       /\ Less(T', T)]_vars

C14_Witness ==
  /\ pc = "loop"
  /\ draw.u = "not_below"
  /\ iteration = 1
  /\ Len(emitted) = 2
  /\ emitted[2].teams = emitted[1].teams
  /\ Less(T, initial_temp)

(* C15: a legal candidate whose objective is lower than or equal to the     *)
(* current objective is always accepted: the current assignment becomes the *)
(* candidate (the two drawn members exchanged, all else as before) and the  *)
(* current objective the candidate's.                                       *)
C15_AcceptsNonWorsening ==
  [][LET candidate == Exchanged(current_teams, draw')
         candidate_obj == overall_team_avg_variance(candidate)
     IN (/\ SwapStep(draw')
         /\ Validated(current_teams, draw')
         /\ ~Less(current_obj, candidate_obj)) =>
          /\ current_teams' = candidate
          /\ current_obj' = candidate_obj]_vars

C15_Witness ==
  /\ pc = "loop"
  /\ Len(emitted) >= 2
  /\ Last(emitted).i # None
  /\ Eq(Last(emitted).obj, emitted[Len(emitted) - 1].obj)
  /\ Last(emitted).teams # emitted[Len(emitted) - 1].teams

(* C16: the snapshot of a step carries the team and member indices exactly  *)
(* when the step accepted a swap, and then they are the drawn two distinct  *)
(* teams and the positions whose members were exchanged; every other        *)
(* snapshot (initial, rejected, final) carries the no-swap marker in all    *)
(* four fields.                                                             *)
C16_SwapIndices ==
  [][emitted' # emitted =>
       LET s == Last(emitted')
           d == draw'
       IN /\ Len(emitted') = Len(emitted) + 1
          /\ IF /\ SwapStep(d)
                /\ Validated(current_teams, d)
                /\ d.u # "not_below"
             THEN /\ s.i = d.i /\ s.j = d.j /\ s.idx1 = d.idx1 /\ s.idx2 = d.idx2
                  /\ s.i # None /\ s.j # None /\ s.idx1 # None /\ s.idx2 # None
                  /\ s.i # s.j
                  /\ s.teams = Exchanged(current_teams, d)
                  /\ s.teams[s.i][s.idx1] = current_teams[s.j][s.idx2]
                  /\ s.teams[s.j][s.idx2] = current_teams[s.i][s.idx1]
             ELSE /\ s.i = None /\ s.j = None /\ s.idx1 = None /\ s.idx2 = None
                  /\ s.teams \in {current_teams, best_state, teams}]_vars

C16_Witness ==
  /\ pc = "loop"
  /\ Last(emitted).i # None
  /\ Last(emitted).idx1 # Last(emitted).idx2

(* C17: every snapshot has as many teams as the initial partition and the   *)
(* team at each index keeps its size; in a formation run no team is empty   *)
(* or larger than team_size and only the last team may be undersized.       *)
C17_ShapePreserved ==
  \A k \in DOMAIN emitted :
    /\ Len(emitted[k].teams) = Len(teams)
    /\ \A t \in DOMAIN teams :
         /\ Len(emitted[k].teams[t]) = Len(teams[t])
         /\ FormationRun =>
              /\ Len(emitted[k].teams[t]) \in 1..team_size
              /\ t < Len(teams) => Len(emitted[k].teams[t]) = team_size

C17_Witness ==
  /\ pc = "finished"
  /\ FormationRun
  /\ Len(teams[Len(teams)]) < team_size
  /\ \E k \in DOMAIN emitted : emitted[k].j = Len(teams)

(* C18: in every snapshot a full-size team that violates the requirements   *)
(* has exactly the members of the team at the same index of the initial     *)
(* partition; if no team of the initial partition violates them, no team of *)
(* any snapshot does.                                                       *)
C18_NoNewViolation ==
  /\ \A k \in DOMAIN emitted : \A t \in DOMAIN emitted[k].teams :
       FullTeamViolates(emitted[k].teams[t]) => emitted[k].teams[t] = teams[t]
  /\ (\A t \in DOMAIN teams : ~FullTeamViolates(teams[t])) =>
       \A k \in DOMAIN emitted : \A t \in DOMAIN emitted[k].teams :
         ~FullTeamViolates(emitted[k].teams[t])

C18_Witness ==
  /\ pc = "finished"
  /\ \E k \in DOMAIN emitted :
       /\ emitted[k].i # None
       /\ \E t \in DOMAIN teams : FullTeamViolates(emitted[k].teams[t])
       /\ emitted[k].teams # teams

----------------------------------------------------------------------------
(* The pure functions, each applied to enumerated arguments *)

FnMaxPool == 5

FnMaxTeam == 3

MetricValues == {10, 50, 90}

(* CompositeScoreCalculator.compute_scaling_factors for one metric: the     *)
(* minimum and the maximum of the metric over the participants              *)
compute_scaling_factors_zero_min(values) ==
  [min |-> 0,
   max |-> CHOOSE v \in Range(values) : \A w \in Range(values) : w <= v]

compute_scaling_factors(values) ==
  [min |-> CHOOSE v \in Range(values) : \A w \in Range(values) : v <= w,
   max |-> CHOOSE v \in Range(values) : \A w \in Range(values) : w <= v]

(* CompositeScoreCalculator.normalize *)
normalize(value, scaling) ==
  IF scaling.max = scaling.min THEN Rat(1, 2)
  ELSE Rat(value - scaling.min, scaling.max - scaling.min)

SeqsUpTo(S, n) == UNION { [1..k -> S] : k \in 0..n }

FnCalls ==
  { [fn |-> "initialize_teams", participants |-> [k \in 1..n |-> k], team_size |-> size] :
      n \in 1..FnMaxPool, size \in 1..MaxTeamSize }
  \cup
  { [fn |-> "meets_role_requirements", team |-> team, role_requirements |-> reqs,
     leader_required |-> leader, full_team_size |-> full] :
      team \in SeqsUpTo(1..4, FnMaxTeam), reqs \in RoleRequirements,
      leader \in BOOLEAN, full \in 1..MaxTeamSize }
  \cup
  { [fn |-> "normalize", values |-> values, of |-> k] :
      values \in SeqsUpTo(MetricValues, MaxPool) \ {<<>>}, k \in 1..MaxPool }

RunUnused ==
  /\ pc = "unused"
  /\ caller = "none"
  /\ pool = <<>>
  /\ participants = <<>>
  /\ team_size = 1
  /\ role_requirements = <<>>
  /\ leader_required = FALSE
  /\ max_iter = 0
  /\ initial_temp = Rat(1, 1)
  /\ cooling_rate = Rat(1, 1)
  /\ teams = <<>>
  /\ current_teams = <<>>
  /\ current_obj = NoObj
  /\ best_state = <<>>
  /\ best_obj = NoObj
  /\ T = Rat(1, 1)
  /\ iteration = 0
  /\ emitted = <<>>
  /\ result = <<>>
  /\ draw = NoDraw

InitFn ==
  /\ fn_pc = "call"
  /\ fn_args \in FnCalls
  /\ fn_args.fn = "normalize" => fn_args.of <= Len(fn_args.values)
  /\ fn_ret = <<>>
  /\ RunUnused
  /\ BotUnused

(* initialize_teams, lines 92-96: shuffles the list in place, returns the   *)
(* chunks                                                                   *)
apply_initialize_teams ==
  /\ fn_pc = "call"
  /\ fn_args.fn = "initialize_teams"
  /\ \E shuffled \in Permutations_(fn_args.participants) :
       fn_ret' = [participants |-> shuffled,
                  teams |-> initialize_teams(shuffled, fn_args.team_size)]
  /\ fn_pc' = "returned"
  /\ UNCHANGED <<fn_args, runvars, botvars>>

(* meets_role_requirements, lines 105-117 *)
apply_meets_role_requirements ==
  /\ fn_pc = "call"
  /\ fn_args.fn = "meets_role_requirements"
  /\ fn_ret' = meets_role_requirements(fn_args.team, fn_args.role_requirements,
                                       fn_args.leader_required, fn_args.full_team_size)
  /\ fn_pc' = "returned"
  /\ UNCHANGED <<fn_args, runvars, botvars>>

(* CompositeScoreCalculator(participants) then normalize of one             *)
(* participant's value, lines 60-74                                         *)
apply_normalize ==
  /\ fn_pc = "call"
  /\ fn_args.fn = "normalize"
  /\ fn_ret' = normalize(fn_args.values[fn_args.of], compute_scaling_factors(fn_args.values))
  /\ fn_pc' = "returned"
  /\ UNCHANGED <<fn_args, runvars, botvars>>

NextFn ==
  \/ apply_initialize_teams
  \/ apply_meets_role_requirements
  \/ apply_normalize

SpecFn == InitFn /\ [][NextFn]_vars

Returned(fn) == fn_pc = "returned" /\ fn_args.fn = fn

(* C11: initialize_teams on N participants with team size S returns         *)
(* ceil(N/S) teams that are the contiguous chunks of a permutation of the   *)
(* pool: every team but the last has S members, the last has N mod S when   *)
(* that is not zero and S otherwise, and no team is empty.                  *)
C11_InitialPartition ==
  Returned("initialize_teams") =>
    LET n == Len(fn_args.participants)
        size == fn_args.team_size
        ts == fn_ret.teams
    IN /\ Len(ts) * size >= n
       /\ (Len(ts) - 1) * size < n
       /\ Flatten(ts) = fn_ret.participants
       /\ Range(fn_ret.participants) = Range(fn_args.participants)
       /\ Len(fn_ret.participants) = n
       /\ \A t \in 1..(Len(ts) - 1) : Len(ts[t]) = size
       /\ Len(ts[Len(ts)]) = IF n % size # 0 THEN n % size ELSE size
       /\ \A t \in DOMAIN ts : ts[t] # <<>>

C11_Witness ==
  /\ Returned("initialize_teams")
  /\ Len(fn_args.participants) = 5
  /\ fn_args.team_size = 2
  /\ Len(fn_ret.teams) = 3
  /\ Len(fn_ret.teams[3]) = 1
  /\ fn_ret.participants # fn_args.participants

CountRole(team, role) == Len(SelectSeq(team, LAMBDA id : P(id).role = role))

(* C12: meets_role_requirements is true for every team with fewer than      *)
(* full_team_size members; for any other team it is true exactly when every *)
(* named role is present at least its required number of times and, if a    *)
(* leader is required, some member wants to lead.                           *)
C12_Validator ==
  Returned("meets_role_requirements") =>
    LET team == fn_args.team
        reqs == fn_args.role_requirements
    IN IF Len(team) < fn_args.full_team_size
       THEN fn_ret = TRUE
       ELSE fn_ret =
              (/\ ~\E role \in DOMAIN reqs : CountRole(team, role) < reqs[role]
               /\ fn_args.leader_required =>
                    Len(SelectSeq(team, LAMBDA id : P(id).wants_to_lead)) >= 1)

C12_Witness ==
  /\ Returned("meets_role_requirements")
  /\ fn_args.team = <<1, 2>>
  /\ fn_args.full_team_size = 2
  /\ DOMAIN fn_args.role_requirements = {"AI Engineer", "Design"}
  /\ fn_ret = FALSE

(* C13: normalize of a participant's value of a metric lies within [0,1],   *)
(* equals (value - min) / (max - min) for the minimum and maximum of the    *)
(* metric over the pool, and is exactly 0.5 when all participants share one *)
(* value; 50 against 10 and 90 gives 0.5.                                   *)
C13_Normalize ==
  Returned("normalize") =>
    LET vs == Range(fn_args.values)
        v == fn_args.values[fn_args.of]
    IN /\ ~Less(fn_ret, Rat(0, 1))
       /\ ~Less(Rat(1, 1), fn_ret)
       /\ Cardinality(vs) = 1 => fn_ret = Rat(1, 2)
       /\ \A lo, hi \in vs :
            ((\A w \in vs : lo <= w /\ w <= hi) /\ lo < hi) =>
              Eq(fn_ret, Rat(v - lo, hi - lo))
       /\ (v = 50 /\ vs = {10, 50, 90}) => Eq(fn_ret, Rat(1, 2))

C13_Witness ==
  /\ Returned("normalize")
  /\ fn_args.values = <<10, 50, 90>>
  /\ fn_args.of = 2
  /\ Eq(fn_ret, Rat(1, 2))

----------------------------------------------------------------------------
(* The profile and competition commands.  Every command is a coroutine of   *)
(* one event loop: it runs without interruption from one await to the next, *)
(* and while it waits in bot.wait_for any other command may run.  The       *)
(* questions of one conversation are taken as one wait; a user has at most  *)
(* one conversation at a time.  A profile is the value of its answers, a    *)
(* competition is its type (standing for the whole stored definition) and   *)
(* its participant list.  One competition name is considered.               *)

MaxUsers == 2

MaxValue == 2

Users == 1..MaxUsers

Values == 1..MaxValue

NoValue == 0

(* the conversation of a user: the command and its local variable profiles *)
NoSession == [cmd |-> "none", profiles |-> <<>>]

(* load_competition returns None while the file does not exist *)
NoComp == [exists |-> FALSE, type |-> NoValue, participants |-> <<>>]

(* profiles[user_id] = value on a dict *)
DictSet(dict, key, value) ==
  [k \in DOMAIN dict \cup {key} |-> IF k = key THEN value ELSE dict[k]]

(* del profiles[user_id] *)
DictDel(dict, key) == [k \in DOMAIN dict \ {key} |-> dict[k]]

InitBot ==
  /\ profiles_json = <<>>
  /\ comp_json = NoComp
  /\ session = [u \in Users |-> NoSession]
  /\ acked = [u \in Users |-> NoValue]
  /\ joined = {}
  /\ RunUnused
  /\ FnUnused

(* create_profile, lines 217-253: load_profiles, the guard, the first await *)
create_profile_begin(u) ==
  /\ session[u] = NoSession
  /\ u \notin DOMAIN profiles_json
  /\ session' = [session EXCEPT ![u] = [cmd |-> "create-profile", profiles |-> profiles_json]]
  /\ UNCHANGED <<profiles_json, comp_json, acked, joined, runvars, fnvars>>

(* create_profile, lines 257-262: the last answer arrived; the dict loaded  *)
(* at line 218 is completed and saved                                       *)
create_profile_finish(u) ==
  /\ session[u].cmd = "create-profile"
  /\ \E value \in Values :
       /\ profiles_json' = DictSet(session[u].profiles, u, value)
       /\ acked' = [acked EXCEPT ![u] = value]
  /\ session' = [session EXCEPT ![u] = NoSession]
  /\ UNCHANGED <<comp_json, joined, runvars, fnvars>>

(* update_profile, lines 266-280 *)
update_profile_begin(u) ==
  /\ session[u] = NoSession
  /\ u \in DOMAIN profiles_json
  /\ session' = [session EXCEPT ![u] = [cmd |-> "update-profile", profiles |-> profiles_json]]
  /\ UNCHANGED <<profiles_json, comp_json, acked, joined, runvars, fnvars>>

(* update_profile, lines 284-291 *)
update_profile_finish(u) ==
  /\ session[u].cmd = "update-profile"
  /\ \E value \in Values :
       /\ profiles_json' = DictSet(session[u].profiles, u, value)
       /\ acked' = [acked EXCEPT ![u] = value]
  /\ session' = [session EXCEPT ![u] = NoSession]
  /\ UNCHANGED <<comp_json, joined, runvars, fnvars>>

(* remove_profile, lines 295-302: no await between the load and the save *)
remove_profile(u) ==
  /\ u \in DOMAIN profiles_json
  /\ profiles_json' = DictDel(profiles_json, u)
  /\ acked' = [acked EXCEPT ![u] = NoValue]
  /\ UNCHANGED <<comp_json, session, joined, runvars, fnvars>>

(* add_comp, lines 348-358: the existence test, then the first await *)
add_comp_begin(u) ==
  /\ session[u] = NoSession
  /\ ~comp_json.exists
  /\ session' = [session EXCEPT ![u] = [cmd |-> "add-comp", profiles |-> <<>>]]
  /\ UNCHANGED <<profiles_json, comp_json, acked, joined, runvars, fnvars>>

(* add_comp, lines 386-396: the last answer arrived; comp_data with an      *)
(* empty participant list is saved                                          *)
add_comp_finish(u) ==
  /\ session[u].cmd = "add-comp"
  /\ \E type \in Values :
       comp_json' = [exists |-> TRUE, type |-> type, participants |-> <<>>]
  /\ session' = [session EXCEPT ![u] = NoSession]
  /\ UNCHANGED <<profiles_json, acked, joined, runvars, fnvars>>

(* join_comp, lines 409-423: no await between the loads and the save *)
join_comp(u) ==
  /\ u \in DOMAIN profiles_json
  /\ comp_json.exists
  /\ u \notin Range(comp_json.participants)
  /\ comp_json' = [comp_json EXCEPT !.participants = Append(@, u)]
  /\ joined' = joined \cup {u}
  /\ UNCHANGED <<profiles_json, session, acked, runvars, fnvars>>

(* asyncio.TimeoutError in bot.wait_for (lines 254-256, 281-283, 359-361,   *)
(* 367-369, 383-385) or the parse error of lines 376-378: the command       *)
(* returns without saving                                                   *)
session_timeout(u) ==
  /\ session[u] # NoSession
  /\ session' = [session EXCEPT ![u] = NoSession]
  /\ UNCHANGED <<profiles_json, comp_json, acked, joined, runvars, fnvars>>

NextBot ==
  \/ \E u \in Users : create_profile_begin(u)
  \/ \E u \in Users : create_profile_finish(u)
  \/ \E u \in Users : update_profile_begin(u)
  \/ \E u \in Users : update_profile_finish(u)
  \/ \E u \in Users : remove_profile(u)
  \/ \E u \in Users : add_comp_begin(u)
  \/ \E u \in Users : add_comp_finish(u)
  \/ \E u \in Users : join_comp(u)
  \/ \E u \in Users : session_timeout(u)

SpecBot == InitBot /\ [][NextBot]_vars

(* C19: once create-profile or update-profile has reported success to a     *)
(* user, the stored profile of that user keeps those values until the       *)
(* user's own next update or removal.                                       *)
C19_NoLostProfileUpdate ==
  \A u \in Users :
    acked[u] # NoValue => (u \in DOMAIN profiles_json /\ profiles_json[u] = acked[u])

(* C20: once join-comp has reported that a user joined, the user stays in   *)
(* the stored participant list, no user id is listed twice, and add-comp    *)
(* never replaces the stored definition of a competition that exists.       *)
C20_MembershipStable ==
  [][/\ \A u \in joined' : comp_json'.exists /\ u \in Range(comp_json'.participants)
     /\ \A a, b \in DOMAIN comp_json'.participants :
          a # b => comp_json'.participants[a] # comp_json'.participants[b]
     /\ comp_json.exists => (comp_json'.exists /\ comp_json'.type = comp_json.type)]_vars

====
